---- MODULE Spec2Model ----
(***************************************************************************)
(* Evaluation-schema orchestration of embiggen's edge-label and node-label *)
(* prediction abstractions: the schema splitter, the per-holdout           *)
(* evaluation and the multi-holdout run.                                   *)
(*                                                                         *)
(* Three specifications share the state:                                   *)
(*   Spec       one call of evaluate(): the loop over the holdouts;        *)
(*   SpecSplit  direct calls of split_graph_following_evaluation_schema;   *)
(*   SpecModel  direct calls of fit / predict / predict_proba / _evaluate  *)
(*              on a node-label model.                                     *)
(***************************************************************************)
EXTENDS Integers, Sequences, FiniteSets, TLC

VARIABLES
    \* the arguments of the call under study, fixed when it starts
    task, evaluation_schema, number_of_holdouts, random_state,
    holdouts_kwargs, edge_features, graph,
    \* the node-label model's _is_binary_prediction_task and
    \* _is_multilabel_prediction_task
    is_binary_prediction_task, is_multilabel_prediction_task,
    \* one run of evaluate()
    pc, holdout_number, train, test, performance, recorded_by, returned,
    raised, engine_calls,
    \* the error raised by the operation of the run that failed ("none" so far)
    failure,
    \* direct calls of the splitter: the last one, the distinct ones made so
    \* far and how many were made
    last_split, seen_splits, split_calls,
    \* direct calls of the node-label model's methods: the last one
    last_call,
    \* calls of the DAGResnik similarity methods: the last one
    resnik_call,
    \* the engine methods the splitter and _evaluate have called on the
    \* caller's graph
    graph_calls,
    \* calls of Node2VecSequence.__getitem__: the last one
    n2v_call,
    \* a TransDPyKeen embedder: what it was built with, its fields and the training loop _fit_transform ran
    pykeen,
    \* calls of graph_to_sparse_tensor: the last one
    sparse_call,
    \* the HOPEEnsmallen constructor: its arguments and what it left
    hope,
    \* one call of GloVe.fit: where it is, its locals and the callbacks it has made
    glove,
    \* the LinkPredictionSequence: its epoch counter and the batches requested so far
    lps,
    \* the WalkletsEnsmallen model: its constructor arguments, stored fields and last parameters()
    walklets

argVars == <<task, evaluation_schema, number_of_holdouts, random_state, holdouts_kwargs, edge_features, graph>>
flagVars == <<is_binary_prediction_task, is_multilabel_prediction_task>>
runVars == <<pc, holdout_number, train, test, performance, recorded_by, returned, raised, engine_calls, failure>>
splitVars == <<last_split, seen_splits, split_calls>>
vars == <<argVars, flagVars, runVars, splitVars, last_call, resnik_call, graph_calls, n2v_call, pykeen, sparse_call, hope, glove, lps, walklets>>
\* the variables of the evaluation, the splitter, the node-label model, the
\* similarities and the caller's graph
coreVars == <<argVars, flagVars, runVars, splitVars, last_call, resnik_call, graph_calls>>

(***************************************************************************)
(* Bounds of the model.                                                    *)
(***************************************************************************)
\* number_of_holdouts ranges over 0..MaxHoldouts
MaxHoldouts == 3
\* the graph holds 0..MaxExamples labelled examples (edges / typed nodes)
MaxExamples == 3
\* at most MaxCalls direct calls of the splitter are followed
MaxCalls == 3

(***************************************************************************)
(* Python strings are sequences of characters, so that the substring test  *)
(* ("Stratified" in evaluation_schema) and the implicit concatenation of   *)
(* adjacent literals are computed, not assumed.                            *)
(***************************************************************************)
StrStratified == <<"S","t","r","a","t","i","f","i","e","d">>
StrMonteCarlo == <<"M","o","n","t","e"," ","C","a","r","l","o">>
StrKfold == <<"K","f","o","l","d">>
StrSpace == <<" ">>

StratifiedMonteCarlo == StrStratified \o StrSpace \o StrMonteCarlo
MonteCarlo == StrMonteCarlo
StratifiedKfold == StrStratified \o StrSpace \o StrKfold
Kfold == StrKfold

\* The four schema names of the specification's EvaluationSchema.
SchemaNames == {MonteCarlo, StratifiedMonteCarlo, Kfold, StratifiedKfold}

\* Python's `needle in haystack` on strings.
Contains(haystack, needle) ==
    \E i \in 1..(Len(haystack) - Len(needle) + 1) :
        SubSeq(haystack, i, i + Len(needle) - 1) = needle

\* AbstractEdgeLabelPredictionModel.get_available_evaluation_schemas: the
\* list literal has no comma between "Stratified Kfold" and "Kfold", so
\* Python concatenates the two adjacent literals into one element.
EdgeAvailableEvaluationSchemas ==
    << StratifiedMonteCarlo, MonteCarlo, StratifiedKfold \o Kfold >>

\* AbstractNodeLabelPredictionModel.get_available_evaluation_schemas.
NodeAvailableEvaluationSchemas ==
    << StratifiedMonteCarlo, MonteCarlo, StratifiedKfold, Kfold >>

get_available_evaluation_schemas(t) ==
    IF t = "edge" THEN EdgeAvailableEvaluationSchemas
                  ELSE NodeAvailableEvaluationSchemas

\* Strings a caller may pass as evaluation_schema: the four names, a name in
\* the wrong case, a name with a trailing space, and the third element the
\* edge-label model advertises.
StrLowerKfold == <<"k","f","o","l","d">>
SchemaInputs ==
    SchemaNames \cup {StrLowerKfold, MonteCarlo \o StrSpace, StratifiedKfold \o Kfold}

(***************************************************************************)
(* Keyword arguments are sets of <<name, value>> pairs with integer        *)
(* values (train_size is given in percent).                                *)
(***************************************************************************)
Keys(kwargs) == {p[1] : p \in kwargs}
Arg(kwargs, key) == {p[2] : p \in {q \in kwargs : q[1] = key}}

\* holdouts_kwargs a caller forwards: nothing, a train fraction, a fold count
\* (parameters of the engine primitive other than those the splitter binds).
HoldoutsKwargs ==
    { {}, {<<"train_size", 80>>}, {<<"k", 2>>}, {<<"k", MaxHoldouts>>} }

RandomStates == {0, 42}
HoldoutNumbers == (0 - 1)..MaxHoldouts

NoRequest == << >>

(***************************************************************************)
(* split_graph_following_evaluation_schema.  The result is the error       *)
(* raised ("none" when the engine is called) and the sequence of requests  *)
(* issued to the graph engine.                                             *)
(***************************************************************************)
\* Mutant of EdgeSplitSeed: the seed is not offset by the holdout index.
EdgeSplitSeedNoOffset(rs, hn) == rs

\* The seed of a Monte Carlo holdout: random_state+holdout_number.
EdgeSplitSeed(rs, hn) == rs + hn

\* Mutant of EdgeKfoldArgs: the k-fold seed is offset like the Monte Carlo one.
EdgeKfoldArgsOffsetSeed(n, rs, hn) ==
    {<<"k", n>>, <<"k_index", hn>>, <<"random_state", rs + hn>>}

\* The keyword arguments of get_edge_label_kfold (holdouts_kwargs is not
\* forwarded on this path).
EdgeKfoldArgs(n, rs, hn) ==
    {<<"k", n>>, <<"k_index", hn>>, <<"random_state", rs>>}

EdgeSplit(schema, n, rs, kw, hn) ==
    IF schema \in {StratifiedMonteCarlo, MonteCarlo}
    THEN [raised |-> "none",
          requests |-> << [primitive |-> "get_edge_label_holdout_graphs",
                           args |-> kw \cup
                               {<<"random_state", EdgeSplitSeed(rs, hn)>>},
                           use_stratification |-> Contains(schema, StrStratified)] >>]
    ELSE IF schema \in {Kfold, StratifiedKfold}
    THEN [raised |-> "none",
          requests |-> << [primitive |-> "get_edge_label_kfold",
                           args |-> EdgeKfoldArgs(n, rs, hn),
                           use_stratification |-> Contains(schema, StrStratified)] >>]
    ELSE [raised |-> "ValueError", requests |-> NoRequest]

\* get_available_evaluation_schemas is an instance method (it takes self and
\* carries no @classmethod), and the classmethod splitter calls it on cls
\* without an instance while it formats the error message.
NodeSchemasCallableOnClass == FALSE

NodeUnsupportedSchemaError ==
    IF NodeSchemasCallableOnClass THEN "ValueError" ELSE "TypeError"

\* The pieces of the error messages of the two splitters ("backtick" is the
\* one character that quotes the requested name).
MsgRequested ==
    <<"T","h","e"," ","r","e","q","u","e","s","t","e","d"," ","e","v",
      "a","l","u","a","t","i","o","n"," ","s","c","h","e","m","a"," ",
      "backtick">>
MsgNotAvailable ==
    <<"backtick"," ","i","s"," ","n","o","t"," ","a","v","a","i","l","a","b",
      "l","e",".">>
MsgAvailableAre ==
    <<" ","T","h","e"," ","a","v","a","i","l","a","b","l","e"," ","e",
      "v","a","l","u","a","t","i","o","n"," ","s","c","h","e","m","a",
      "s"," ","a","r","e",":"," ">>
MsgMissingSelf ==
    <<"g","e","t","_","a","v","a","i","l","a","b","l","e","_","e","v",
      "a","l","u","a","t","i","o","n","_","s","c","h","e","m","a","s",
      "(",")"," ","m","i","s","s","i","n","g"," ","1"," ","r","e","q",
      "u","i","r","e","d"," ","p","o","s","i","t","i","o","n","a","l",
      " ","a","r","g","u","m","e","n","t",":"," ","'","s","e","l","f",
      "'">>
StrComma == <<",", " ">>
StrPeriod == <<".">>

\* format_list of the names (called in the node-label splitter only): the
\* names, one after the other, separated by commas.
RECURSIVE format_list(_)
format_list(names) ==
    IF names = << >> THEN << >>
    ELSE IF Len(names) = 1 THEN names[1]
    ELSE names[1] \o StrComma \o format_list(Tail(names))

\* The error of the edge-label splitter for a schema it does not know: an
\* f-string holding the requested name.
EdgeUnsupportedSchema(schema) ==
    [raised |-> "ValueError", message |-> MsgRequested \o schema \o MsgNotAvailable]

\* The error of the node-label splitter: the message is an f-string that
\* calls cls.get_available_evaluation_schemas(), so the TypeError of that
\* call is what leaves the splitter.
NodeUnsupportedSchema(schema) ==
    IF NodeSchemasCallableOnClass
    THEN [raised |-> "ValueError",
          message |-> MsgRequested \o schema \o MsgNotAvailable \o MsgAvailableAre
                          \o format_list(NodeAvailableEvaluationSchemas) \o StrPeriod]
    ELSE [raised |-> NodeUnsupportedSchemaError, message |-> MsgMissingSelf]

UnsupportedSchema(t, schema) ==
    IF t = "edge" THEN EdgeUnsupportedSchema(schema) ELSE NodeUnsupportedSchema(schema)

\* Mutant of NodeSplitSeed: the seed also depends on how many splits were
\* requested before (state carried over between calls).
NodeSplitSeedCarried(rs, hn) == rs + hn + split_calls

NodeSplitSeed(rs, hn) == rs + hn

NodeSplit(schema, rs, kw, hn) ==
    IF schema \in {StratifiedMonteCarlo, MonteCarlo}
    THEN [raised |-> "none",
          requests |-> << [primitive |-> "get_node_label_holdout_graphs",
                           args |-> kw \cup
                               {<<"random_state", NodeSplitSeed(rs, hn)>>},
                           use_stratification |-> Contains(schema, StrStratified)] >>]
    ELSE IF schema \in {Kfold, StratifiedKfold}
    THEN [raised |-> "none",
          requests |-> << [primitive |-> "get_node_label_kfold",
                           args |-> kw \cup
                               {<<"k_index", hn>>,
                                <<"random_state", rs>>},
                           use_stratification |-> Contains(schema, StrStratified)] >>]
    ELSE [raised |-> NodeUnsupportedSchemaError, requests |-> NoRequest]

split_graph_following_evaluation_schema(t, schema, n, rs, kw, hn) ==
    IF t = "edge"
    THEN EdgeSplit(schema, n, rs, kw, hn)
    ELSE NodeSplit(schema, rs, kw, hn)

(***************************************************************************)
(* The graph engine (ensmallen), an external collaborator.  A graph is     *)
(* its labelled examples 0..examples-1 (edges for the edge-label task,     *)
(* nodes of known type for the node-label task), the number of node types  *)
(* and whether nodes carry several types.  A train or test graph is the    *)
(* subset of the labelled examples it keeps.                               *)
(***************************************************************************)
Graphs ==
    [examples : 0..MaxExamples, node_types_number : {2, 3}, multilabel : BOOLEAN]

Examples(g) == 0..(g.examples - 1)

HoldoutPrimitives == {"get_edge_label_holdout_graphs", "get_node_label_holdout_graphs"}
KfoldPrimitives == {"get_edge_label_kfold", "get_node_label_kfold"}

\* The engine rejects a call whose keyword arguments are not the ones the
\* primitive takes, and a fold index outside 0..k-1.
EngineAccepts(req) ==
    IF req.primitive \in HoldoutPrimitives
    THEN Keys(req.args) = {"train_size", "random_state"}
    ELSE /\ Keys(req.args) = {"k", "k_index", "random_state"}
         /\ \A k \in Arg(req.args, "k") : \A i \in Arg(req.args, "k_index") :
                k >= 1 /\ 0 <= i /\ i < k

\* One fixed partition of the examples per (k, random_state): example e lies
\* in fold (e + random_state) % k.
KfoldTest(g, k, rs, k_index) ==
    {e \in Examples(g) : (e + rs) % k = k_index}

\* A random holdout keeps train_size percent of the examples, chosen by the seed.
HoldoutTrain(g, train_size, seed) ==
    {e \in Examples(g) : (e + seed) % g.examples < (g.examples * train_size) \div 100}

\* The (train, test) pair the engine returns for an accepted request.
EngineSplit(g, req) ==
    LET rs == CHOOSE v \in Arg(req.args, "random_state") : TRUE
    IN  IF req.primitive \in HoldoutPrimitives
        THEN LET ts == CHOOSE v \in Arg(req.args, "train_size") : TRUE
                 tr == HoldoutTrain(g, ts, rs)
             IN  [train |-> tr, test |-> Examples(g) \ tr]
        ELSE LET k == CHOOSE v \in Arg(req.args, "k") : TRUE
                 i == CHOOSE v \in Arg(req.args, "k_index") : TRUE
                 te == KfoldTest(g, k, rs, i)
             IN  [train |-> Examples(g) \ te, test |-> te]

(***************************************************************************)
(* The models.  Optional values are sets: {} is None, {v} is the value v.  *)
(* An operation yields the error it raises ("none" on return), the number  *)
(* of graph-engine accessors its own body has called by then, and its      *)
(* results.                                                                *)
(***************************************************************************)
None == {}
FeatureInputs == {None, {"features"}}
Truthy(flag) == flag = {TRUE}

\* The guard opening fit, predict and predict_proba of the node-label model.
NodeFeaturesError(ef, ntf) ==
    IF ef # None THEN "NotImplementedError"
    ELSE IF ntf # None THEN "NotImplementedError"
    ELSE "none"

NodePredict(ef, ntf) ==
    [raised |-> NodeFeaturesError(ef, ntf), engine_reads |-> 0]

NodePredictProba(ef, ntf) ==
    [raised |-> NodeFeaturesError(ef, ntf), engine_reads |-> 0]

\* Mutant of NodeFit: the two flags are set before the guard.
NodeFitFlagsFirst(g, ef, ntf, is_binary, is_multilabel) ==
    [raised |-> NodeFeaturesError(ef, ntf),
     engine_reads |-> IF NodeFeaturesError(ef, ntf) # "none" THEN 2 ELSE 3,
     is_binary |-> {g.node_types_number = 2},
     is_multilabel |-> {g.multilabel}]

\* fit sets the two task flags from the graph it is given, after the guard.
NodeFit(g, ef, ntf, is_binary, is_multilabel) ==
    LET err == NodeFeaturesError(ef, ntf)
    IN  IF err # "none"
        THEN [raised |-> err, engine_reads |-> 0,
              is_binary |-> is_binary, is_multilabel |-> is_multilabel]
        ELSE [raised |-> "none", engine_reads |-> 3,
              is_binary |-> {g.node_types_number = 2},
              is_multilabel |-> {g.multilabel}]

\* Mutant of EvaluationModes: the test graph is scored first.
EvaluationModesSwapped(tr, te) ==
    << [mode |-> "test", graph |-> te], [mode |-> "train", graph |-> tr] >>

\* The (evaluation_mode, evaluation_graph) pairs _evaluate loops over.
EvaluationModes(tr, te) ==
    << [mode |-> "train", graph |-> tr], [mode |-> "test", graph |-> te] >>

NodeLabelsEncoding(is_binary, is_multilabel) ==
    IF Truthy(is_multilabel) THEN "one_hot"
    ELSE IF Truthy(is_binary) THEN "boolean"
    ELSE "single_label"

NodePredictionsVariant(is_binary, is_multilabel) ==
    IF Truthy(is_binary) THEN "probabilities"
    ELSE IF Truthy(is_multilabel) THEN "threshold"
    ELSE "argmax"

\* The nodes of a graph and of its train and test graphs: the nodes with a
\* known node type in the full graph, and one node whose type is unknown.
\* A train or test graph keeps every node and knows the types of its own
\* examples only.
Nodes(g) == 0..g.examples

\* evaluation_graph.get_known_node_types_mask()
KnownNodeTypesMask(g, known) == [n \in Nodes(g) |-> n \in known]

\* array[mask]: the entries of a per-node array left by a boolean mask
Masked(indices, mask) == {n \in indices : mask[n]}

\* Mutant of NodeRecord: train_size is computed in each mode from the
\* evaluated graph.
NodeRecordTrainSizePerMode(g, tr, m, is_binary, is_multilabel) ==
    [evaluation_mode |-> m.mode,
     train_size |-> <<Cardinality(m.graph), g.examples>>,
     known_nodes_number |-> Cardinality(m.graph),
     labels |-> NodeLabelsEncoding(is_binary, is_multilabel),
     predictions |-> NodePredictionsVariant(is_binary, is_multilabel),
     scored_predictions |-> Masked(Nodes(g), KnownNodeTypesMask(g, m.graph)),
     scored_probabilities |-> Masked(Nodes(g), KnownNodeTypesMask(g, m.graph)),
     scored_labels |-> Masked(Nodes(g), KnownNodeTypesMask(g, m.graph))]

\* Mutant of NodeRecord: the labels are scored without the mask.
NodeRecordUnmaskedLabels(g, tr, m, is_binary, is_multilabel) ==
    [evaluation_mode |-> m.mode,
     train_size |-> <<Cardinality(tr), g.examples>>,
     known_nodes_number |-> Cardinality(m.graph),
     labels |-> NodeLabelsEncoding(is_binary, is_multilabel),
     predictions |-> NodePredictionsVariant(is_binary, is_multilabel),
     scored_predictions |-> Masked(Nodes(g), KnownNodeTypesMask(g, m.graph)),
     scored_probabilities |-> Masked(Nodes(g), KnownNodeTypesMask(g, m.graph)),
     scored_labels |-> Nodes(g)]

\* One record of the node-label _evaluate.  The probabilities and the
\* predictions are arrays over the nodes of the evaluated graph, the labels
\* an array over the nodes of the full graph; the scored_* fields are the
\* nodes whose entries reach the scorers.
NodeRecord(g, tr, m, is_binary, is_multilabel) ==
    [evaluation_mode |-> m.mode,
     train_size |-> <<Cardinality(tr), g.examples>>,
     known_nodes_number |-> Cardinality(m.graph),
     labels |-> NodeLabelsEncoding(is_binary, is_multilabel),
     predictions |-> NodePredictionsVariant(is_binary, is_multilabel),
     scored_predictions |-> Masked(Nodes(g), KnownNodeTypesMask(g, m.graph)),
     scored_probabilities |-> Masked(Nodes(g), KnownNodeTypesMask(g, m.graph)),
     scored_labels |-> Masked(Nodes(g), KnownNodeTypesMask(g, m.graph))]

\* AbstractNodeLabelPredictionModel._evaluate: train_size and the labels are
\* read from the engine first; predict_proba (and its guard) runs inside the
\* loop over the two modes.
NodeEvaluate(g, tr, te, ef, ntf, is_binary, is_multilabel) ==
    LET modes == EvaluationModes(tr, te)
        err == NodePredictProba(ef, ntf).raised
    IN  IF g.examples = 0
        THEN [raised |-> "ZeroDivisionError", engine_reads |-> 2, records |-> << >>]
        ELSE IF err # "none"
        THEN [raised |-> err, engine_reads |-> 3, records |-> << >>]
        ELSE [raised |-> "none", engine_reads |-> 3 + 2 * Len(modes),
              records |-> [i \in 1..Len(modes) |->
                              NodeRecord(g, tr, modes[i], is_binary, is_multilabel)]]

\* AbstractEdgeLabelPredictionModel._evaluate: edges_number and the labels
\* are those of the full graph in both modes; the predictions are those of
\* the evaluated graph.
EdgeRecord(g, tr, m) ==
    [evaluation_mode |-> m.mode,
     train_size |-> <<Cardinality(tr), g.examples>>,
     edges_number |-> g.examples,
     predictions_length |-> Cardinality(m.graph),
     labels_length |-> g.examples]

EdgeEvaluate(g, tr, te) ==
    LET modes == EvaluationModes(tr, te)
    IN  IF g.examples = 0
        THEN [raised |-> "ZeroDivisionError", engine_reads |-> 2, records |-> << >>]
        ELSE [raised |-> "none", engine_reads |-> 2 + Len(modes),
              records |-> [i \in 1..Len(modes) |-> EdgeRecord(g, tr, modes[i])]]

\* The calls _evaluate makes per mode into the model library (predict,
\* predict_proba, evaluate_predictions, evaluate_prediction_probabilities)
\* may raise: failing is the mode whose call raises, "none" when none does.
FailingModes == {"none", "train", "test"}

\* The exception of the model library, named after the call that raised it.
LibraryError(origin) ==
    CASE origin = "fit" -> "LibraryError in fit"
      [] origin = "train" -> "LibraryError in train mode"
      [] origin = "test" -> "LibraryError in test mode"

\* Mutant of ModeFailure: the records built before the failing mode are
\* returned and the exception is swallowed.
ModeFailureSwallowed(out, failing) ==
    IF out.raised # "none" \/ failing = "none" THEN out
    ELSE [raised |-> "none", engine_reads |-> out.engine_reads,
          records |-> SelectSeq(out.records, LAMBDA r : failing = "test" /\ r.evaluation_mode = "train")]

\* _evaluate has no try/except: an exception raised inside the loop over the
\* modes leaves the function, and the local list of records (the 'train'
\* record included, when the 'test' mode fails) is lost.
ModeFailure(out, failing) ==
    IF out.raised # "none" \/ failing = "none" THEN out
    ELSE [raised |-> LibraryError(failing), engine_reads |-> out.engine_reads, records |-> << >>]

(***************************************************************************)
(* The engine methods the splitter and _evaluate call on the caller's      *)
(* graph, and what a method of the engine does to the graph it is called   *)
(* on: the in-place methods change it, every other one leaves it alone.    *)
(***************************************************************************)
\* Mutant of NodeEvaluateGraphMethods: the labels of the graph are removed
\* in place once they are read.
NodeEvaluateGraphMethodsInPlace(g, is_binary, is_multilabel) ==
    {"get_known_node_types_number", "get_single_label_node_type_ids", "remove_inplace_node_types"}

\* The node-label _evaluate: the known count of graph, then one accessor of
\* the labels; the division fails before the accessor on a graph without
\* known node types.
NodeEvaluateGraphMethods(g, is_binary, is_multilabel) ==
    {"get_known_node_types_number"} \cup
    IF g.examples = 0 THEN {}
    ELSE IF Truthy(is_multilabel) THEN {"get_one_hot_encoded_node_types"}
    ELSE IF Truthy(is_binary) THEN {"get_boolean_node_type_ids"}
    ELSE {"get_single_label_node_type_ids"}

\* The edge-label _evaluate: the edge count of graph, then in each mode one
\* accessor of the labels, chosen by self._one_hot_encode_labels.
EdgeEvaluateGraphMethods(g, one_hot_encode_labels) ==
    {"get_edges_number"} \cup
    IF g.examples = 0 THEN {}
    ELSE IF one_hot_encode_labels THEN {"get_one_hot_encoded_edge_types"}
    ELSE {"get_edge_type_ids"}

\* The splitter: the primitives of the requests it issues.
SplitGraphMethods(out) == {out.requests[i].primitive : i \in 1..Len(out.requests)}

InPlaceEngineMethods ==
    {"remove_inplace_node_types", "remove_inplace_edge_types",
     "set_inplace_all_node_types", "set_inplace_all_edge_types"}

EngineEffect(g, methods) ==
    IF methods \cap InPlaceEngineMethods # {} THEN [g EXCEPT !.examples = 0] ELSE g

(***************************************************************************)
(* DAGResnik: the similarity methods.  The scores come from the fitted     *)
(* engine model; a score is a number or NaN.                               *)
(***************************************************************************)
Similarities == {"nan", "0.0", "2.5"}

\* np.isnan(predictions).any()
HasNaN(predictions) == \E i \in 1..Len(predictions) : predictions[i] = "nan"

get_similarities_from_graph(predictions, as_dataframe) ==
    IF HasNaN(predictions)
    THEN [raised |-> "ValueError", rows |-> << >>, dataframe |-> FALSE]
    ELSE [raised |-> "none", rows |-> predictions, dataframe |-> as_dataframe]

\* The bipartite and the clique methods build a graph and hand it to
\* get_similarities_from_graph.
GraphSimilarityMethods ==
    {"get_similarities_from_graph",
     "get_similarities_from_bipartite_graph_from_edge_node_ids",
     "get_similarities_from_bipartite_graph_from_edge_node_names",
     "get_similarities_from_bipartite_graph_from_edge_node_prefixes",
     "get_similarities_from_bipartite_graph_from_edge_node_types",
     "get_similarities_from_clique_graph_from_node_ids",
     "get_similarities_from_clique_graph_from_node_names",
     "get_similarities_from_clique_graph_from_node_prefixes",
     "get_similarities_from_clique_graph_from_node_types"}

\* The score of one pair is returned as the engine gives it.
get_similarity_from_node_id(similarity) ==
    [raised |-> "none", rows |-> <<similarity>>, dataframe |-> FALSE]

NoResnikCall == [method |-> "none", predictions |-> << >>,
                 out |-> [raised |-> "none", rows |-> << >>, dataframe |-> FALSE]]

(***************************************************************************)
(* Node2VecSequence: __getitem__ hands the index and the fields of the     *)
(* sequence to the engine's node2vec and returns its batch with None.      *)
(***************************************************************************)
\* the batch indices requested are 0..MaxIndex
MaxIndex == 3

\* The lengths, batch sizes and window sizes a sequence is built with (the
\* test builds length 100, batch_size 1, window_size 4).
WalkLengths == {1, 10, 100}
BatchSizes == {1, 2, 32}
WindowSizes == {1, 4}

\* What the engine's node2vec does with the request: it returns a batch or
\* raises an error of its own.
Node2VecOutcomes == {"batch", "ValueError"}

Node2VecSequenceGetItem(idx, len, batch_size, window_size, outcome) ==
    IF outcome = "batch"
    THEN [raised |-> "none",
          returned |-> << [idx |-> idx, batch_size |-> batch_size, length |-> len,
                           window_size |-> window_size] >>]
    ELSE [raised |-> outcome, returned |-> << >>]

NoNode2VecCall == [idx |-> 0, length |-> 0, batch_size |-> 0, window_size |-> 0,
                   out |-> [raised |-> "none", returned |-> << >>], called |-> FALSE]

(***************************************************************************)
(* PyKeenEmbedder (through TransDPyKeen, which forwards training_loop,     *)
(* epochs and batch_size to it).  A training_loop argument is a string or  *)
(* an object; an object is a class or not, and a class is a subclass of    *)
(* TrainingLoop or not.                                                    *)
(***************************************************************************)
StrSLCWA == "Stochastic Local Closed World Assumption"
StrLCWA == "Local Closed World Assumption"

\* PyKeenEmbedder.SUPPORTED_TRAINING_LOOPS
SUPPORTED_TRAINING_LOOPS ==
    [name \in {StrSLCWA, StrLCWA} |->
        IF name = StrSLCWA THEN "SLCWATrainingLoop" ELSE "LCWATrainingLoop"]

\* the classes that are subclasses of pykeen.training.TrainingLoop
TrainingLoopClasses == {"SLCWATrainingLoop", "LCWATrainingLoop", "CustomTrainingLoop"}

TrainingLoopInputs ==
    [kind : {"str"}, value : {StrSLCWA, StrLCWA, "SLCWA"}]
    \cup [kind : {"class"}, value : TrainingLoopClasses \cup {"dict"}]
    \cup [kind : {"instance"}, value : {"SLCWATrainingLoop"}]

EpochsInputs == {1, 10}
PyKeenBatchSizes == {32, 1024}
EmbeddingSizes == {5, 100}
ScoringNorms == {1, 2}

\* PyKeenEmbedder.__init__: the checks on training_loop, then the fields.
PyKeenEmbedderInit(training_loop, epochs, batch_size) ==
    LET named == training_loop.kind = "str"
        resolved == IF named /\ training_loop.value \in DOMAIN SUPPORTED_TRAINING_LOOPS
                    THEN [kind |-> "class", value |-> SUPPORTED_TRAINING_LOOPS[training_loop.value]]
                    ELSE training_loop
    IN  IF named /\ training_loop.value \notin DOMAIN SUPPORTED_TRAINING_LOOPS
        THEN [raised |-> "ValueError", training_loop |-> {}, epochs |-> {}, batch_size |-> {}]
        ELSE IF resolved.kind # "class"
        THEN [raised |-> "ValueError", training_loop |-> {}, epochs |-> {}, batch_size |-> {}]
        ELSE IF resolved.value \notin TrainingLoopClasses
        THEN [raised |-> "ValueError", training_loop |-> {}, epochs |-> {}, batch_size |-> {}]
        ELSE [raised |-> "none", training_loop |-> {resolved.value},
              epochs |-> {epochs}, batch_size |-> {batch_size}]

\* PyKeenEmbedder._fit_transform: the class the training loop is built from
\* and the arguments of its train().
PyKeenFitTransform(self) ==
    [training_loop |-> "SLCWATrainingLoop", num_epochs |-> self.epochs, batch_size |-> self.batch_size]

NoPyKeen == [built |-> FALSE, requested |-> [kind |-> "str", value |-> StrSLCWA],
             embedding_size |-> 0, scoring_fct_norm |-> 0,
             self |-> [raised |-> "none", training_loop |-> {}, epochs |-> {}, batch_size |-> {}],
             trained |-> << >>]

(***************************************************************************)
(* graph_to_sparse_tensor.  A graph is what the function asks the engine   *)
(* about it: whether it has edge weights, singleton nodes, parallel edges, *)
(* and how many nodes and directed edges it has.                           *)
(***************************************************************************)
SparseGraphs ==
    {g \in [has_edge_weights : BOOLEAN, has_singleton_nodes : BOOLEAN, is_multigraph : BOOLEAN,
            nodes_number : 1..MaxExamples, directed_edges_number : 0..MaxExamples] :
        /\ g.directed_edges_number = 0 => g.has_singleton_nodes /\ ~g.has_edge_weights
        /\ g.is_multigraph => g.directed_edges_number >= 2
        /\ ~g.has_singleton_nodes => 2 * g.directed_edges_number >= g.nodes_number}

\* the engine methods that read the edges of the graph
EdgeDataMethods == {"get_edge_node_ids", "get_edge_weights", "get_directed_edges_number"}

\* Mutant of graph_to_sparse_tensor: a multigraph is not refused.
graph_to_sparse_tensor_multigraph(g, use_weights) ==
    LET weights == IF use_weights THEN <<"has_edge_weights">> ELSE << >>
    IN  IF use_weights /\ ~g.has_edge_weights
        THEN [raised |-> "ValueError", calls |-> weights, tensor |-> << >>]
        ELSE IF g.has_singleton_nodes
        THEN [raised |-> "ValueError", calls |-> weights \o <<"has_singleton_nodes">>, tensor |-> << >>]
        ELSE [raised |-> "none",
              calls |-> weights \o <<"has_singleton_nodes", "get_edge_node_ids">>
                        \o (IF use_weights THEN <<"get_edge_weights">> ELSE <<"get_directed_edges_number">>)
                        \o <<"get_nodes_number", "get_nodes_number">>,
              tensor |-> << [indices |-> g.directed_edges_number,
                             values |-> IF use_weights THEN "weights" ELSE "ones",
                             dense_shape |-> <<g.nodes_number, g.nodes_number>>] >>]

\* graph_to_sparse_tensor: the three checks in the order of the code (the
\* weights are looked for only when use_weights holds), then the tensor.
\* calls lists the engine methods called, in order.
graph_to_sparse_tensor(g, use_weights) ==
    LET weights == IF use_weights THEN <<"has_edge_weights">> ELSE << >>
    IN  IF use_weights /\ ~g.has_edge_weights
        THEN [raised |-> "ValueError", calls |-> weights, tensor |-> << >>]
        ELSE IF g.has_singleton_nodes
        THEN [raised |-> "ValueError", calls |-> weights \o <<"has_singleton_nodes">>, tensor |-> << >>]
        ELSE IF g.is_multigraph
        THEN [raised |-> "ValueError",
              calls |-> weights \o <<"has_singleton_nodes", "is_multigraph">>, tensor |-> << >>]
        ELSE [raised |-> "none",
              calls |-> weights \o <<"has_singleton_nodes", "is_multigraph", "get_edge_node_ids">>
                        \o (IF use_weights THEN <<"get_edge_weights">> ELSE <<"get_directed_edges_number">>)
                        \o <<"get_nodes_number", "get_nodes_number">>,
              tensor |-> << [indices |-> g.directed_edges_number,
                             values |-> IF use_weights THEN "weights" ELSE "ones",
                             dense_shape |-> <<g.nodes_number, g.nodes_number>>] >>]

NoSparseCall == [called |-> FALSE, use_weights |-> FALSE,
                 graph |-> [has_edge_weights |-> FALSE, has_singleton_nodes |-> FALSE, is_multigraph |-> FALSE,
                            nodes_number |-> 1, directed_edges_number |-> 1],
                 out |-> [raised |-> "none", calls |-> << >>, tensor |-> << >>]]

(***************************************************************************)
(* HOPEEnsmallen.__init__.  root_node_name is None ({}) or a string ({s});  *)
(* the fields of the instance are the set of <<attribute, value>> pairs set *)
(* so far.                                                                  *)
(***************************************************************************)
\* HOPEEnsmallen.get_available_metrics
AvailableMetrics ==
    <<"Jaccard", "Neighbours Intersection size", "Ancestors Jaccard", "Ancestors size",
      "Adamic-Adar", "Adjacency", "Laplacian", "Left Normalized Laplacian",
      "Right Normalized Laplacian", "Symmetric Normalized Laplacian">>

AncestralMetrics == {"Ancestors Jaccard", "Ancestors size"}

\* The metrics a caller may pass: the available ones, one in the wrong case
\* and one that does not exist.
MetricInputs == {AvailableMetrics[i] : i \in DOMAIN AvailableMetrics} \cup {"jaccard", "Cosine"}
RootNodeNames == {None, {"root"}, {""}}

\* Mutant of HOPEInit: a root node given with a metric that is not based on
\* ancestors is accepted.
HOPEInitIgnoringRoot(metric, root_node_name, embedding_size, enable_cache) ==
    IF \A i \in DOMAIN AvailableMetrics : AvailableMetrics[i] # metric
    THEN [raised |-> "ValueError", fields |-> {}]
    ELSE IF root_node_name = None /\ metric \in AncestralMetrics
    THEN [raised |-> "ValueError", fields |-> {}]
    ELSE [raised |-> "none",
          fields |-> {<<"_metric", {metric}>>, <<"_root_node_name", root_node_name>>}]

HOPEInit(metric, root_node_name, embedding_size, enable_cache) ==
    IF \A i \in DOMAIN AvailableMetrics : AvailableMetrics[i] # metric
    THEN [raised |-> "ValueError", fields |-> {}]
    ELSE IF root_node_name = None /\ metric \in AncestralMetrics
    THEN [raised |-> "ValueError", fields |-> {}]
    ELSE IF root_node_name # None /\ metric \notin AncestralMetrics
    THEN [raised |-> "ValueError", fields |-> {}]
    ELSE [raised |-> "none",
          fields |-> {<<"_metric", {metric}>>, <<"_root_node_name", root_node_name>>}]

NoHOPE == [built |-> FALSE, metric |-> "Jaccard", root_node_name |-> None,
           embedding_size |-> 0, enable_cache |-> FALSE,
           out |-> [raised |-> "none", fields |-> {}]]

(***************************************************************************)
(* GloVe.fit: the training loop over the epochs and the batches.  A batch  *)
(* is its length; a loss is named after the number (batchnum) of the batch *)
(* whose optimization step produced it; current_loss is unbound ({}) until *)
(* an optimization step has run.                                           *)
(***************************************************************************)
\* epochs ranges over 1..MaxEpochs
MaxEpochs == 2
\* batch_size ranges over 1..MaxBatchSize
MaxBatchSize == 3
\* the co-occurrence dictionary holds 1..MaxCooccurrences entries
MaxCooccurrences == 4

\* _batchify: for i in range(0, len, batch_size): sequence[i:i + batch_size]
batchify(n, batch_size) ==
    [b \in 1..((n + batch_size - 1) \div batch_size) |->
        IF b * batch_size <= n THEN batch_size ELSE n - (b - 1) * batch_size]

\* random.shuffle: any order of the batches
shuffle(batches) ==
    {[i \in 1..Len(batches) |-> batches[p[i]]] :
        p \in {f \in [1..Len(batches) -> 1..Len(batches)] :
                  \A i, j \in 1..Len(batches) : i # j => f[i] # f[j]}}

NoGloVe == [pc |-> "idle", epochs |-> 0, batch_size |-> 0, cooccurrences |-> 0,
            batches |-> << >>, epoch |-> 0, batch_index |-> 0, batchnum |-> 0,
            current_loss |-> {}, events |-> << >>, raised |-> "none"]

(***************************************************************************)
(* LinkPredictionSequence: a Keras sequence whose batches are sampled by   *)
(* the graph engine.  Keras calls __getitem__ with idx in                  *)
(* 0..batches_per_epoch-1 and on_epoch_end between the epochs.  The first  *)
(* argument of graph.link_prediction is the seed of the sampling; the      *)
(* record of requests keeps, for every call made to the engine, the epoch  *)
(* and index it was made for and the seed it was made with.                *)
(***************************************************************************)
MaxBatchesPerEpoch == 3

link_prediction_seed(idx, current_epoch) == idx + current_epoch

NoLPS == [constructed |-> FALSE, batches_per_epoch |-> 0, current_epoch |-> 0, requests |-> {}]

LPSFrame == UNCHANGED <<coreVars, n2v_call, pykeen, sparse_call, hope, glove, walklets>>

LPSInit ==
    /\ ~lps.constructed
    /\ \E batches_per_epoch \in 1..MaxBatchesPerEpoch :
        lps' = [constructed |-> TRUE, batches_per_epoch |-> batches_per_epoch, current_epoch |-> 0, requests |-> {}]
    /\ LPSFrame

LPSOnEpochEnd ==
    /\ lps.constructed
    /\ lps.current_epoch < MaxEpochs
    /\ lps' = [lps EXCEPT !.current_epoch = @ + 1]
    /\ LPSFrame

LPSGetItem ==
    /\ lps.constructed
    /\ \E idx \in 0..(lps.batches_per_epoch - 1) :
        lps' = [lps EXCEPT !.requests = @ \cup {[epoch |-> lps.current_epoch, idx |-> idx, seed |-> link_prediction_seed(idx, lps.current_epoch)]}]
    /\ LPSFrame

NextLPS == LPSInit \/ LPSOnEpochEnd \/ LPSGetItem

(***************************************************************************)
(* WalkletsEnsmallen: the constructor hands embedding_size // window_size  *)
(* to its parent class, parameters() multiplies the parent's value back by *)
(* window_size.  The parent class keeps the two values it is given and     *)
(* returns them from parameters() under the same names.  Python's // on    *)
(* positive integers is the floor division \div.                           *)
(***************************************************************************)
MaxEmbeddingSize == 12

MaxWindowSize == 5

Node2VecEnsmallenInit(embedding_size, window_size) == [embedding_size |-> embedding_size, window_size |-> window_size]

Node2VecEnsmallenParameters(self) == [embedding_size |-> self.embedding_size, window_size |-> self.window_size]

WalkletsInit(embedding_size, window_size) == Node2VecEnsmallenInit(embedding_size \div window_size, window_size)

WalkletsParameters(self) ==
    LET parameters == Node2VecEnsmallenParameters(self)
    IN  [parameters EXCEPT !.embedding_size = parameters.embedding_size * parameters.window_size]

NoWalklets == [pc |-> "idle", embedding_size |-> 0, window_size |-> 0, self |-> [embedding_size |-> 0, window_size |-> 0], parameters |-> [embedding_size |-> 0, window_size |-> 0]]

WalkletsFrame == UNCHANGED <<coreVars, n2v_call, pykeen, sparse_call, hope, glove, lps>>

WalkletsConstruct ==
    /\ walklets.pc = "idle"
    /\ \E embedding_size \in 1..MaxEmbeddingSize, window_size \in 1..MaxWindowSize :
        walklets' = [NoWalklets EXCEPT !.pc = "constructed", !.embedding_size = embedding_size, !.window_size = window_size, !.self = WalkletsInit(embedding_size, window_size)]
    /\ WalkletsFrame

WalkletsCallParameters ==
    /\ walklets.pc = "constructed"
    /\ walklets' = [walklets EXCEPT !.pc = "parameters", !.parameters = WalkletsParameters(walklets.self)]
    /\ WalkletsFrame

NextWalklets == WalkletsConstruct \/ WalkletsCallParameters

(***************************************************************************)
(* evaluate(): the loop over the holdouts.  The loop is the one of          *)
(* AbstractClassifierModel.evaluate, as the specification gives it          *)
(* (Metrics Aggregator): for holdout_number in 0..number_of_holdouts-1,     *)
(* split, fit a fresh model on train, score both modes, append the records. *)
(***************************************************************************)
DefaultGraph == [examples |-> MaxExamples, node_types_number |-> 2, multilabel |-> FALSE]

NoSplit == [holdout_number |-> 0, out |-> [raised |-> "none", requests |-> NoRequest]]
NoCall == [op |-> "none", edge_features |-> None, node_type_features |-> None,
           raised |-> "none", engine_reads |-> 0, records |-> << >>]

InitIdle ==
    /\ is_binary_prediction_task = None
    /\ is_multilabel_prediction_task = None
    /\ pc = "Initialized"
    /\ holdout_number = 0
    /\ train = {}
    /\ test = {}
    /\ performance = << >>
    /\ recorded_by = << >>
    /\ returned = << >>
    /\ raised = "none"
    /\ engine_calls = << >>
    /\ failure = "none"
    /\ last_split = NoSplit
    /\ seen_splits = {}
    /\ split_calls = 0
    /\ last_call = NoCall
    /\ resnik_call = NoResnikCall
    /\ graph_calls = {}
    /\ n2v_call = NoNode2VecCall
    /\ pykeen = NoPyKeen
    /\ sparse_call = NoSparseCall
    /\ hope = NoHOPE
    /\ glove = NoGloVe
    /\ lps = NoLPS
    /\ walklets = NoWalklets

Init ==
    /\ task \in {"edge", "node"}
    /\ evaluation_schema \in SchemaInputs
    /\ number_of_holdouts \in 0..MaxHoldouts
    /\ random_state \in RandomStates
    /\ holdouts_kwargs \in HoldoutsKwargs
    /\ edge_features \in FeatureInputs
    /\ graph \in Graphs
    /\ task = "edge" => graph.node_types_number = 2 /\ ~graph.multilabel
    /\ InitIdle

\* AbstractEdgeLabelPredictionModel.evaluate calls super().evaluate(...) as a
\* statement and has no return: the caller gets None.
EdgeEvaluateReturn(table) == << >>

\* The node-label model inherits evaluate, which returns the table.
NodeEvaluateReturn(table) == << table >>

EvaluateReturn(t, table) ==
    IF t = "edge" THEN EdgeEvaluateReturn(table) ELSE NodeEvaluateReturn(table)

Fail(error) ==
    /\ pc' = "Failed"
    /\ raised' = error

StartRun ==
    /\ pc = "Initialized"
    /\ holdout_number' = 0
    /\ IF number_of_holdouts = 0
       THEN /\ pc' = "Complete"
            /\ returned' = EvaluateReturn(task, performance)
       ELSE /\ pc' = "Splitting"
            /\ UNCHANGED returned
    /\ UNCHANGED <<argVars, flagVars, train, test, performance, recorded_by, raised, engine_calls, failure, splitVars, last_call, resnik_call, graph_calls, n2v_call, pykeen, sparse_call, hope, glove, lps, walklets>>

SplitStep ==
    /\ pc = "Splitting"
    /\ LET out == split_graph_following_evaluation_schema(task, evaluation_schema,
                      number_of_holdouts, random_state, holdouts_kwargs, holdout_number)
       IN  /\ engine_calls' = engine_calls \o out.requests
           /\ IF out.raised # "none"
              THEN Fail(out.raised) /\ failure' = out.raised /\ UNCHANGED <<train, test>>
              ELSE IF ~EngineAccepts(out.requests[1])
              THEN Fail("EngineError") /\ failure' = "EngineError" /\ UNCHANGED <<train, test>>
              ELSE LET split == EngineSplit(graph, out.requests[1])
                   IN  /\ train' = split.train
                       /\ test' = split.test
                       /\ pc' = "Fitting"
                       /\ UNCHANGED <<raised, failure>>
    /\ UNCHANGED <<argVars, flagVars, holdout_number, performance, recorded_by, returned, splitVars, last_call, resnik_call, graph_calls, n2v_call, pykeen, sparse_call, hope, glove, lps, walklets>>

FitStep ==
    /\ pc = "Fitting"
    /\ \E fit_fails \in BOOLEAN :
        IF task = "node"
        THEN LET out == NodeFit(graph, edge_features, None, is_binary_prediction_task, is_multilabel_prediction_task)
             IN  /\ is_binary_prediction_task' = out.is_binary
                 /\ is_multilabel_prediction_task' = out.is_multilabel
                 /\ IF out.raised # "none"
                    THEN Fail(out.raised) /\ failure' = out.raised
                    ELSE IF fit_fails
                    THEN Fail(LibraryError("fit")) /\ failure' = LibraryError("fit")
                    ELSE pc' = "Scoring" /\ UNCHANGED <<raised, failure>>
        ELSE /\ UNCHANGED flagVars
             /\ IF fit_fails
                THEN Fail(LibraryError("fit")) /\ failure' = LibraryError("fit")
                ELSE pc' = "Scoring" /\ UNCHANGED <<raised, failure>>
    /\ UNCHANGED <<argVars, holdout_number, train, test, performance, recorded_by, returned, engine_calls, splitVars, last_call, resnik_call, graph_calls, n2v_call, pykeen, sparse_call, hope, glove, lps, walklets>>

evaluate_holdout(t, g, tr, te, ef, is_binary, is_multilabel) ==
    IF t = "edge" THEN EdgeEvaluate(g, tr, te)
                  ELSE NodeEvaluate(g, tr, te, ef, None, is_binary, is_multilabel)

ScoreStep ==
    /\ pc = "Scoring"
    /\ \E failing \in FailingModes :
        LET called == evaluate_holdout(task, graph, train, test, edge_features,
                          is_binary_prediction_task, is_multilabel_prediction_task)
            out == ModeFailure(called, failing)
        IN  /\ failure' = IF called.raised # "none" THEN called.raised
                          ELSE IF failing # "none" THEN LibraryError(failing) ELSE "none"
            /\ IF out.raised # "none"
               THEN Fail(out.raised) /\ UNCHANGED <<performance, recorded_by>>
               ELSE /\ performance' = performance \o out.records
                    /\ recorded_by' = recorded_by \o [i \in 1..Len(out.records) |-> holdout_number]
                    /\ pc' = "Recorded"
                    /\ UNCHANGED raised
    /\ UNCHANGED <<argVars, flagVars, holdout_number, train, test, returned, engine_calls, splitVars, last_call, resnik_call, graph_calls, n2v_call, pykeen, sparse_call, hope, glove, lps, walklets>>

\* Mutant of NextHoldout: the fitted model is kept for the next holdout and
\* after the run.
NextHoldoutKeepsModel ==
    /\ pc = "Recorded"
    /\ IF holdout_number + 1 < number_of_holdouts
       THEN /\ holdout_number' = holdout_number + 1
            /\ pc' = "Splitting"
            /\ UNCHANGED returned
       ELSE /\ pc' = "Complete"
            /\ returned' = EvaluateReturn(task, performance)
            /\ UNCHANGED holdout_number
    /\ UNCHANGED <<argVars, flagVars, train, test, performance, recorded_by, raised, engine_calls, failure, splitVars, last_call, resnik_call, graph_calls, n2v_call, pykeen, sparse_call, hope, glove, lps, walklets>>

\* Mutant of NextHoldout: the run completes after its first holdout.
NextHoldoutStopsEarly ==
    /\ pc = "Recorded"
    /\ pc' = "Complete"
    /\ returned' = EvaluateReturn(task, performance)
    /\ is_binary_prediction_task' = None
    /\ is_multilabel_prediction_task' = None
    /\ UNCHANGED <<argVars, holdout_number, train, test, performance, recorded_by, raised, engine_calls, failure, splitVars, last_call, resnik_call, graph_calls, n2v_call, pykeen, sparse_call, hope, glove, lps, walklets>>

\* The model fitted for a holdout is dropped with the holdout: the next fit,
\* and the caller after the run, find an unfitted model.
NextHoldout ==
    /\ pc = "Recorded"
    /\ IF holdout_number + 1 < number_of_holdouts
       THEN /\ holdout_number' = holdout_number + 1
            /\ pc' = "Splitting"
            /\ UNCHANGED returned
       ELSE /\ pc' = "Complete"
            /\ returned' = EvaluateReturn(task, performance)
            /\ UNCHANGED holdout_number
    /\ is_binary_prediction_task' = None
    /\ is_multilabel_prediction_task' = None
    /\ UNCHANGED <<argVars, train, test, performance, recorded_by, raised, engine_calls, failure, splitVars, last_call, resnik_call, graph_calls, n2v_call, pykeen, sparse_call, hope, glove, lps, walklets>>

Next == StartRun \/ SplitStep \/ FitStep \/ ScoreStep \/ NextHoldout

Spec == Init /\ [][Next]_vars

\* evaluate is one sequential, synchronous loop: each step is a call that
\* returns or raises, so the run goes on as long as a step is left to take.
FairSpec == Init /\ [][Next]_vars /\ WF_vars(Next)

(***************************************************************************)
(* Direct calls of split_graph_following_evaluation_schema, with any       *)
(* holdout_number, on a model of either task.  The splitter only hands the *)
(* graph to the engine, so the graph's size is varied for the schemas      *)
(* whose engine answer is examined (the k-fold ones).                      *)
(***************************************************************************)
InitSplit ==
    /\ task \in {"edge", "node"}
    /\ evaluation_schema \in SchemaInputs
    /\ number_of_holdouts \in 0..MaxHoldouts
    /\ random_state \in RandomStates
    /\ holdouts_kwargs \in HoldoutsKwargs
    /\ edge_features = None
    /\ graph \in Graphs
    /\ graph.node_types_number = 2 /\ ~graph.multilabel
    /\ evaluation_schema \notin {Kfold, StratifiedKfold} => graph = DefaultGraph
    /\ InitIdle

CallSplit ==
    \E hn \in HoldoutNumbers :
        LET call == [holdout_number |-> hn,
                     out |-> split_graph_following_evaluation_schema(task, evaluation_schema,
                                 number_of_holdouts, random_state, holdouts_kwargs, hn)]
        IN  /\ split_calls < MaxCalls
            /\ split_calls' = split_calls + 1
            /\ last_split' = call
            /\ seen_splits' = seen_splits \cup {call}
            /\ UNCHANGED <<argVars, flagVars, runVars, last_call, resnik_call, graph_calls, n2v_call, pykeen, sparse_call, hope, glove, lps, walklets>>

NextSplit == CallSplit

SpecSplit == InitSplit /\ [][NextSplit]_vars

(***************************************************************************)
(* Direct calls of fit, predict, predict_proba and _evaluate on one        *)
(* node-label model, with any feature arguments.                           *)
(***************************************************************************)
InitModel ==
    /\ task = "node"
    /\ evaluation_schema = MonteCarlo
    /\ number_of_holdouts = MaxHoldouts
    /\ random_state = 42
    /\ holdouts_kwargs = {}
    /\ edge_features = None
    /\ graph \in Graphs
    /\ InitIdle

Called(op, ef, ntf, out, records) ==
    last_call' = [op |-> op, edge_features |-> ef, node_type_features |-> ntf,
                  raised |-> out.raised, engine_reads |-> out.engine_reads,
                  records |-> records]

CallFit ==
    \E ef \in FeatureInputs, ntf \in FeatureInputs :
        LET out == NodeFit(graph, ef, ntf, is_binary_prediction_task, is_multilabel_prediction_task)
        IN  /\ Called("fit", ef, ntf, out, << >>)
            /\ is_binary_prediction_task' = out.is_binary
            /\ is_multilabel_prediction_task' = out.is_multilabel
            /\ UNCHANGED <<argVars, runVars, splitVars, resnik_call, graph_calls, n2v_call, pykeen, sparse_call, hope, glove, lps, walklets>>

CallPredict ==
    \E ef \in FeatureInputs, ntf \in FeatureInputs :
        /\ Called("predict", ef, ntf, NodePredict(ef, ntf), << >>)
        /\ UNCHANGED <<argVars, flagVars, runVars, splitVars, resnik_call, graph_calls, n2v_call, pykeen, sparse_call, hope, glove, lps, walklets>>

CallPredictProba ==
    \E ef \in FeatureInputs, ntf \in FeatureInputs :
        /\ Called("predict_proba", ef, ntf, NodePredictProba(ef, ntf), << >>)
        /\ UNCHANGED <<argVars, flagVars, runVars, splitVars, resnik_call, graph_calls, n2v_call, pykeen, sparse_call, hope, glove, lps, walklets>>

CallEvaluate ==
    \E ef \in FeatureInputs, ntf \in FeatureInputs, tr \in SUBSET Examples(graph) :
        LET out == NodeEvaluate(graph, tr, Examples(graph) \ tr, ef, ntf,
                       is_binary_prediction_task, is_multilabel_prediction_task)
        IN  /\ Called("_evaluate", ef, ntf, out, out.records)
            /\ UNCHANGED <<argVars, flagVars, runVars, splitVars, resnik_call, graph_calls, n2v_call, pykeen, sparse_call, hope, glove, lps, walklets>>

NextModel == CallFit \/ CallPredict \/ CallPredictProba \/ CallEvaluate

SpecModel == InitModel /\ [][NextModel]_vars

(***************************************************************************)
(* Calls of the similarity methods of a fitted DAGResnik model, with any   *)
(* scores coming back from the engine.                                     *)
(***************************************************************************)
InitResnik ==
    /\ task = "edge"
    /\ evaluation_schema = MonteCarlo
    /\ number_of_holdouts = 0
    /\ random_state = 0
    /\ holdouts_kwargs = {}
    /\ edge_features = None
    /\ graph = DefaultGraph
    /\ InitIdle

CallGraphSimilarities ==
    \E method \in GraphSimilarityMethods, n \in 0..MaxExamples, as_dataframe \in BOOLEAN :
        \E predictions \in [1..n -> Similarities] :
            /\ resnik_call' = [method |-> method, predictions |-> predictions,
                               out |-> get_similarities_from_graph(predictions, as_dataframe)]
            /\ UNCHANGED <<argVars, flagVars, runVars, splitVars, last_call, graph_calls, n2v_call, pykeen, sparse_call, hope, glove, lps, walklets>>

CallPairSimilarity ==
    \E similarity \in Similarities :
        /\ resnik_call' = [method |-> "get_similarity_from_node_id", predictions |-> <<similarity>>,
                           out |-> get_similarity_from_node_id(similarity)]
        /\ UNCHANGED <<argVars, flagVars, runVars, splitVars, last_call, graph_calls, n2v_call, pykeen, sparse_call, hope, glove, lps, walklets>>

NextResnik == CallGraphSimilarities \/ CallPairSimilarity

SpecResnik == InitResnik /\ [][NextResnik]_vars

(***************************************************************************)
(* Any sequence of calls of the splitter and of _evaluate on one graph,    *)
(* in either task: the graph after a call is what the engine methods       *)
(* called on it leave.                                                     *)
(***************************************************************************)
InitFrame ==
    /\ task \in {"edge", "node"}
    /\ evaluation_schema \in SchemaInputs
    /\ number_of_holdouts \in 1..MaxHoldouts
    /\ random_state = 0
    /\ holdouts_kwargs \in HoldoutsKwargs
    /\ edge_features = None
    /\ graph \in Graphs
    /\ InitIdle

FrameCall(methods) ==
    /\ graph_calls' = graph_calls \cup methods
    /\ graph' = EngineEffect(graph, methods)
    /\ UNCHANGED <<task, evaluation_schema, number_of_holdouts, random_state, holdouts_kwargs, edge_features>>
    /\ UNCHANGED <<flagVars, runVars, splitVars, last_call, resnik_call, n2v_call, pykeen, sparse_call, hope, glove, lps, walklets>>

FrameSplit ==
    \E hn \in 0..(MaxHoldouts - 1) :
        FrameCall(SplitGraphMethods(split_graph_following_evaluation_schema(task,
            evaluation_schema, number_of_holdouts, random_state, holdouts_kwargs, hn)))

FrameEvaluate ==
    \/ /\ task = "edge"
       /\ \E one_hot_encode_labels \in BOOLEAN :
             FrameCall(EdgeEvaluateGraphMethods(graph, one_hot_encode_labels))
    \/ /\ task = "node"
       /\ \E is_binary \in {None, {FALSE}, {TRUE}}, is_multilabel \in {None, {FALSE}, {TRUE}} :
             FrameCall(NodeEvaluateGraphMethods(graph, is_binary, is_multilabel))

NextFrame == FrameSplit \/ FrameEvaluate

SpecFrame == InitFrame /\ [][NextFrame]_vars

(***************************************************************************)
(* Components that take no part in evaluate start from the same idle state *)
(* and are called on their own.                                            *)
(***************************************************************************)
InitComponent == InitResnik

CallNode2VecGetItem ==
    \E idx \in 0..MaxIndex, len \in WalkLengths, batch_size \in BatchSizes, window_size \in WindowSizes, outcome \in Node2VecOutcomes :
        /\ n2v_call' = [idx |-> idx, length |-> len, batch_size |-> batch_size,
                        window_size |-> window_size, called |-> TRUE,
                        out |-> Node2VecSequenceGetItem(idx, len, batch_size, window_size, outcome)]
        /\ UNCHANGED <<coreVars, pykeen, sparse_call, hope, glove, lps, walklets>>

NextNode2Vec == CallNode2VecGetItem

SpecNode2Vec == InitComponent /\ [][NextNode2Vec]_vars

(***************************************************************************)
(* A TransDPyKeen embedder is built, and once built it is fitted.          *)
(***************************************************************************)
PyKeenConstruct ==
    /\ ~pykeen.built
    /\ \E training_loop \in TrainingLoopInputs, epochs \in EpochsInputs, batch_size \in PyKeenBatchSizes, embedding_size \in EmbeddingSizes, scoring_fct_norm \in ScoringNorms :
          pykeen' = [built |-> TRUE, requested |-> training_loop, embedding_size |-> embedding_size,
                     scoring_fct_norm |-> scoring_fct_norm,
                     self |-> PyKeenEmbedderInit(training_loop, epochs, batch_size),
                     trained |-> << >>]
    /\ UNCHANGED <<coreVars, n2v_call, sparse_call, hope, glove, lps, walklets>>

PyKeenFit ==
    /\ pykeen.built
    /\ pykeen.self.raised = "none"
    /\ pykeen' = [pykeen EXCEPT !.trained = <<PyKeenFitTransform(pykeen.self)>>]
    /\ UNCHANGED <<coreVars, n2v_call, sparse_call, hope, glove, lps, walklets>>

NextPyKeen == PyKeenConstruct \/ PyKeenFit

SpecPyKeen == InitComponent /\ [][NextPyKeen]_vars

(***************************************************************************)
(* Calls of graph_to_sparse_tensor on any graph.                           *)
(***************************************************************************)
CallGraphToSparseTensor ==
    \E g \in SparseGraphs, use_weights \in BOOLEAN :
        /\ sparse_call' = [called |-> TRUE, use_weights |-> use_weights, graph |-> g,
                           out |-> graph_to_sparse_tensor(g, use_weights)]
        /\ UNCHANGED <<coreVars, n2v_call, pykeen, hope, glove, lps, walklets>>

NextSparse == CallGraphToSparseTensor

SpecSparse == InitComponent /\ [][NextSparse]_vars

(***************************************************************************)
(* Constructions of HOPEEnsmallen with any metric and root node name.      *)
(***************************************************************************)
HOPEConstruct ==
    \E metric \in MetricInputs, root_node_name \in RootNodeNames, embedding_size \in EmbeddingSizes, enable_cache \in BOOLEAN :
        /\ hope' = [built |-> TRUE, metric |-> metric, root_node_name |-> root_node_name,
                    embedding_size |-> embedding_size, enable_cache |-> enable_cache,
                    out |-> HOPEInit(metric, root_node_name, embedding_size, enable_cache)]
        /\ UNCHANGED <<coreVars, n2v_call, pykeen, sparse_call, glove, lps, walklets>>

NextHOPE == HOPEConstruct

SpecHOPE == InitComponent /\ [][NextHOPE]_vars

(***************************************************************************)
(* One call of GloVe.fit on a corpus with at least one co-occurrence.      *)
(***************************************************************************)
GloVeFrame == UNCHANGED <<coreVars, n2v_call, pykeen, sparse_call, hope, lps, walklets>>

\* fit up to __prepare_batches
GloVeFit ==
    /\ glove.pc = "idle"
    /\ \E epochs \in 1..MaxEpochs, batch_size \in 1..MaxBatchSize, n \in 1..MaxCooccurrences :
          glove' = [NoGloVe EXCEPT !.pc = "epoch", !.epochs = epochs, !.batch_size = batch_size,
                                   !.cooccurrences = n, !.batches = batchify(n, batch_size)]
    /\ GloVeFrame

\* for epoch in trange(self.epochs): shuffle(batches)
GloVeEpochStart ==
    /\ glove.pc = "epoch"
    /\ IF glove.epoch < glove.epochs
       THEN \E shuffled \in shuffle(glove.batches) :
                glove' = [glove EXCEPT !.pc = "batch", !.batches = shuffled, !.batch_index = 0]
       ELSE glove' = [glove EXCEPT !.pc = "done"]
    /\ GloVeFrame

\* one turn of the loop over the batches
GloVeBatch ==
    /\ glove.pc = "batch"
    /\ glove.batch_index < Len(glove.batches)
    /\ LET batchnum == glove.batchnum + 1
           batch == glove.batches[glove.batch_index + 1]
       IN  IF batch # glove.batch_size
           THEN glove' = [glove EXCEPT !.batchnum = batchnum, !.batch_index = @ + 1]
           ELSE glove' = [glove EXCEPT !.batchnum = batchnum, !.batch_index = @ + 1,
                              !.current_loss = {batchnum},
                              !.events = Append(@, [callback |-> "on_batch_end", batch |-> batchnum,
                                                    epoch |-> glove.epoch, loss |-> {batchnum}])]
    /\ GloVeFrame

\* after the batches of the epoch: on_epoch_end with current_loss
GloVeEpochEnd ==
    /\ glove.pc = "batch"
    /\ glove.batch_index = Len(glove.batches)
    /\ IF glove.current_loss = {}
       THEN glove' = [glove EXCEPT !.pc = "failed", !.raised = "UnboundLocalError"]
       ELSE glove' = [glove EXCEPT !.pc = "epoch", !.epoch = @ + 1,
                          !.events = Append(@, [callback |-> "on_epoch_end", batch |-> 0,
                                                epoch |-> glove.epoch, loss |-> glove.current_loss])]
    /\ GloVeFrame

NextGloVe == GloVeFit \/ GloVeEpochStart \/ GloVeBatch \/ GloVeEpochEnd

\* fit is one sequential loop: it goes on until it returns or raises
SpecGloVe == InitComponent /\ [][NextGloVe]_vars /\ WF_vars(NextGloVe)

SpecLPS == InitComponent /\ [][NextLPS]_vars

SpecWalklets == InitComponent /\ [][NextWalklets]_vars

(***************************************************************************)
(* Properties of the splitter (checked under SpecSplit).                   *)
(***************************************************************************)
Range(seq) == {seq[i] : i \in 1..Len(seq)}
IsMonteCarloSchema == evaluation_schema \in {MonteCarlo, StratifiedMonteCarlo}
IsKfoldSchema == evaluation_schema \in {Kfold, StratifiedKfold}
Seeds(c) == Arg(c.out.requests[1].args, "random_state")

\* C1: for both tasks, every call of the splitter with one of the four schema
\* names returns after exactly one engine split request, and every call with
\* any other string raises ValueError without any engine request.
C1_SchemaResolution ==
    \A c \in seen_splits :
        IF evaluation_schema \in SchemaNames
        THEN c.out.raised = "none" /\ Len(c.out.requests) = 1
        ELSE c.out.raised = "ValueError" /\ c.out.requests = NoRequest

\* C2: for the Monte Carlo schemas, every call of the splitter issues one
\* request to the engine's random holdout primitive, with seed
\* random_state + holdout_number and with holdouts_kwargs as its other
\* arguments; calls with different holdout numbers use different seeds.
C2_MonteCarloSeed ==
    IsMonteCarloSchema =>
        /\ \A c \in seen_splits :
              /\ c.out.raised = "none"
              /\ Len(c.out.requests) = 1
              /\ c.out.requests[1].primitive \in HoldoutPrimitives
              /\ Seeds(c) = {random_state + c.holdout_number}
              /\ {p \in c.out.requests[1].args : p[1] # "random_state"} = holdouts_kwargs
        /\ \A c, d \in seen_splits :
              c.holdout_number # d.holdout_number => Seeds(c) # Seeds(d)

\* C2 witness: random_state 42, holdouts 0, 1, 2 have been split with seeds
\* 42, 43, 44 and train_size forwarded.
C2_Witness ==
    /\ IsMonteCarloSchema
    /\ random_state = 42
    /\ holdouts_kwargs = {<<"train_size", 80>>}
    /\ {c.holdout_number : c \in seen_splits} = {0, 1, 2}
    /\ UNION {Seeds(c) : c \in seen_splits} = {42, 43, 44}

\* C3: for the Kfold schemas, in both tasks, every call of the splitter
\* requests the engine's k-fold primitive with k = number_of_holdouts,
\* k_index = holdout_number and random_state unchanged.
C3_KfoldArguments ==
    IsKfoldSchema =>
        \A c \in seen_splits :
            /\ c.out.raised = "none"
            /\ c.out.requests[1].primitive \in KfoldPrimitives
            /\ Arg(c.out.requests[1].args, "k") = {number_of_holdouts}
            /\ Arg(c.out.requests[1].args, "k_index") = {c.holdout_number}
            /\ Arg(c.out.requests[1].args, "random_state") = {random_state}

\* The schema strings the task's splitter accepts.
AcceptedSchemas ==
    {s \in SchemaInputs :
        split_graph_following_evaluation_schema(task, s, number_of_holdouts,
            random_state, holdouts_kwargs, 0).raised = "none"}

\* C6: get_available_evaluation_schemas returns exactly the four schema
\* names, which are the names the same model's splitter accepts.
C6_AdvertisedSchemas ==
    /\ Range(get_available_evaluation_schemas(task)) = SchemaNames
    /\ Range(get_available_evaluation_schemas(task)) = AcceptedSchemas

\* C7: a call of the splitter with holdout_number outside
\* 0..number_of_holdouts-1 raises the invalid-holdout-index error and issues
\* no request to the engine.
C7_InvalidHoldoutIndex ==
    \A c \in seen_splits :
        ~(0 <= c.holdout_number /\ c.holdout_number < number_of_holdouts) =>
            /\ c.out.raised = "InvalidHoldoutIndexError"
            /\ c.out.requests = NoRequest

\* The k-fold calls the engine serves, and the test set it returns for one.
KfoldCalls ==
    {c \in seen_splits : c.out.raised = "none" /\ EngineAccepts(c.out.requests[1])}
TestOf(c) == EngineSplit(graph, c.out.requests[1]).test
FoldCount(c) == Arg(c.out.requests[1].args, "k")

\* C8: for the Kfold schemas, all calls of the splitter made with one run's
\* arguments address the same engine partition (same k, same random_state),
\* each with its holdout_number as fold index; the test sets of different
\* holdout numbers are disjoint, and once holdouts 0..k-1 have all been split
\* the union of their test sets is the full labelled example set.
C8_KfoldPartition ==
    IsKfoldSchema =>
        /\ \A c, d \in KfoldCalls :
              /\ FoldCount(c) = FoldCount(d)
              /\ Seeds(c) = Seeds(d)
              /\ Arg(c.out.requests[1].args, "k_index") = {c.holdout_number}
              /\ c.holdout_number # d.holdout_number => TestOf(c) \cap TestOf(d) = {}
        /\ \A c \in KfoldCalls :
              {d.holdout_number : d \in KfoldCalls} = UNION {0..(k - 1) : k \in FoldCount(c)}
                  => UNION {TestOf(d) : d \in KfoldCalls} = Examples(graph)

\* C8 witness: every fold of a k-fold split (k >= 2) has been requested, the
\* folds are non-empty and together cover the examples.
C8_Witness ==
    /\ IsKfoldSchema
    /\ Cardinality(KfoldCalls) >= 2
    /\ \E c \in KfoldCalls :
          {d.holdout_number : d \in KfoldCalls} = UNION {0..(k - 1) : k \in FoldCount(c)}
    /\ \A c \in KfoldCalls : TestOf(c) # {}
    /\ UNION {TestOf(d) : d \in KfoldCalls} = Examples(graph)

C15_UnsupportedSchemaMessage ==
    evaluation_schema \notin SchemaNames =>
        \A c \in seen_splits :
            LET error == UnsupportedSchema(task, evaluation_schema)
            IN  /\ c.out.raised = error.raised
                /\ error.raised = "ValueError"
                /\ Contains(error.message, evaluation_schema)
                /\ \A name \in SchemaNames : Contains(error.message, name)

(***************************************************************************)
(* Properties of the node-label model's methods (checked under SpecModel). *)
(***************************************************************************)
\* C5: whichever of fit, predict, predict_proba and _evaluate receives edge
\* features raises NotImplementedError before it has called the graph engine.
C5_EdgeFeaturesFailEagerly ==
    (last_call.op # "none" /\ last_call.edge_features # None) =>
        /\ last_call.raised = "NotImplementedError"
        /\ last_call.engine_reads = 0

\* The task variant an encoding of the labels, and a way of making the
\* discrete predictions, belongs to.
VariantOfLabels(encoding) ==
    CASE encoding = "one_hot" -> "multilabel"
      [] encoding = "boolean" -> "binary"
      [] encoding = "single_label" -> "multiclass"
VariantOfPredictions(variant) ==
    CASE variant = "threshold" -> "multilabel"
      [] variant = "probabilities" -> "binary"
      [] variant = "argmax" -> "multiclass"

\* C16: in every record _evaluate builds, whatever the binary and multilabel
\* flags of the model are (unset, or set by fit), the labels and the
\* discrete predictions are produced for the same task variant (one-hot
\* labels with thresholded predictions, boolean labels with the binary
\* predictions, integer labels with the argmax).
C16_SameTaskVariant ==
    \A i \in 1..Len(last_call.records) :
        VariantOfLabels(last_call.records[i].labels)
            = VariantOfPredictions(last_call.records[i].predictions)

\* C26: a call of fit on a node-label model that raises NotImplementedError
\* (edge features or node type features were given) leaves both flags of
\* the model as they were before the call.
C26_FailedFitKeepsFlags ==
    [][(last_call'.op = "fit" /\ last_call'.raised = "NotImplementedError")
           => UNCHANGED flagVars]_vars

\* C26 witness: fit was refused on a model that had not been fitted, and
\* its flags are still unset.
C26_Witness ==
    /\ last_call.op = "fit"
    /\ last_call.raised = "NotImplementedError"
    /\ last_call.node_type_features # None
    /\ is_binary_prediction_task = None
    /\ is_multilabel_prediction_task = None

\* C27: in every state of a node-label model, before the first fit too,
\* is_binary_prediction_task() and is_multilabel_prediction_task(), which
\* return the two fields as they are, return True or False.
C27_FlagsAreBoolean ==
    /\ is_binary_prediction_task \in {{TRUE}, {FALSE}}
    /\ is_multilabel_prediction_task \in {{TRUE}, {FALSE}}

(***************************************************************************)
(* Properties of the run (checked under Spec).                             *)
(***************************************************************************)
\* C4: a completed run of evaluate returns a table of exactly
\* 2 * number_of_holdouts rows, for both tasks.
C4_ResultRows ==
    pc = "Complete" =>
        /\ returned # << >>
        /\ \A i \in 1..Len(returned) : Len(returned[i]) = 2 * number_of_holdouts

\* C10: the result holds, for each holdout scored so far, its 'train' record
\* followed by its 'test' record, holdout after holdout in increasing index
\* order: record 2i+1 is the train record of holdout i and record 2i+2 its
\* test record.
C10_RecordOrder ==
    /\ Len(recorded_by) = Len(performance)
    /\ \A p \in 1..Len(performance) :
          /\ recorded_by[p] = (p - 1) \div 2
          /\ performance[p].evaluation_mode = IF p % 2 = 1 THEN "train" ELSE "test"
    /\ pc \in {"Splitting", "Fitting", "Scoring"} => Len(performance) = 2 * holdout_number
    /\ pc \in {"Recorded", "Complete"} /\ number_of_holdouts > 0
          => Len(performance) = 2 * (holdout_number + 1)

\* C10 witness: a node-label run of at least two holdouts has completed.
C10_Witness ==
    /\ pc = "Complete"
    /\ number_of_holdouts >= 2
    /\ Len(performance) = 2 * number_of_holdouts
    /\ task = "node"

\* C11: a failure raised while a holdout is split, fitted or scored ends the
\* run with that same failure: the run is failed as soon as an operation has
\* failed, the error it raises is the operation's own, nothing is returned,
\* no record of the failing holdout is kept (no 'train' record when the
\* 'test' mode fails) and no holdout after the failing one has been split.
C11_FailureAborts ==
    /\ failure # "none" <=> pc = "Failed"
    /\ pc = "Failed" =>
          /\ raised = failure
          /\ returned = << >>
          /\ Len(performance) = 2 * holdout_number
          /\ Len(engine_calls) <= holdout_number + 1
    /\ pc # "Failed" => raised = "none"

\* C11 witness: the 'test' mode of the second holdout failed in the model
\* library, after the first holdout had been recorded.
C11_Witness ==
    /\ pc = "Failed"
    /\ failure = LibraryError("test")
    /\ holdout_number = 1
    /\ Len(performance) = 2

\* The request the engine answered for the holdout of record p, and the
\* graph that record's mode evaluated.
SplitOfRecord(p) == EngineSplit(graph, engine_calls[recorded_by[p] + 1])
EvaluatedGraph(p) ==
    IF performance[p].evaluation_mode = "train" THEN SplitOfRecord(p).train
    ELSE SplitOfRecord(p).test

\* C13: in both tasks the 'train' and the 'test' record of a holdout carry
\* the same train_size, the number of labelled examples of the holdout's
\* train graph over the number of labelled examples of the full graph.
C13_TrainSize ==
    \A p \in 1..Len(performance) :
        /\ performance[p].train_size = <<Cardinality(SplitOfRecord(p).train), graph.examples>>
        /\ \A q \in 1..Len(performance) :
              recorded_by[p] = recorded_by[q] => performance[p].train_size = performance[q].train_size

\* C13 witness: a run of either task recorded a holdout whose train graph
\* holds some but not all of the labelled examples.
C13_Witness ==
    /\ pc = "Complete"
    /\ Len(performance) >= 2
    /\ performance[1].train_size[1] \in 1..(graph.examples - 1)
    /\ performance[2].train_size = performance[1].train_size
    /\ EvaluatedGraph(2) # SplitOfRecord(2).train

\* The example count a record stores: edges_number in the edge task,
\* known_nodes_number in the node task.
ExamplesNumber(p) ==
    IF task = "edge" THEN performance[p].edges_number
    ELSE performance[p].known_nodes_number

\* C14: in both tasks the example count stored in a record is the number of
\* labelled examples of the graph evaluated in that record's mode: the train
\* graph's for a 'train' record, the test graph's for a 'test' record.
C14_ExamplesNumber ==
    \A p \in 1..Len(performance) : ExamplesNumber(p) = Cardinality(EvaluatedGraph(p))

\* C17: in every record of a node-label run the predictions, the
\* probabilities and the labels that reach the scorers are those of the same
\* nodes, the nodes whose type is known in the evaluated graph: the three
\* have the length the record stores as known_nodes_number and hold no node
\* of unknown type.
C17_SameMask ==
    task = "node" =>
        \A p \in 1..Len(performance) :
            LET r == performance[p]
            IN  /\ r.scored_predictions = EvaluatedGraph(p)
                /\ r.scored_probabilities = EvaluatedGraph(p)
                /\ r.scored_labels = EvaluatedGraph(p)
                /\ Cardinality(r.scored_labels) = r.known_nodes_number
                /\ r.scored_labels \subseteq Examples(graph)

\* C17 witness: a node-label run has recorded a holdout whose train and test
\* graphs both hold nodes of known type, fewer than the nodes of the graph.
C17_Witness ==
    /\ task = "node"
    /\ pc = "Complete"
    /\ Len(performance) >= 2
    /\ performance[1].scored_labels # {}
    /\ performance[2].scored_labels # {}
    /\ performance[1].known_nodes_number < Cardinality(Nodes(graph))

\* The steps a run may take from one stage to the next.
RunTransition ==
    \/ /\ pc = "Initialized" /\ pc' = "Splitting"
       /\ number_of_holdouts >= 1 /\ holdout_number' = 0
    \/ /\ pc = "Initialized" /\ pc' = "Complete"
       /\ number_of_holdouts = 0
    \/ /\ pc = "Splitting" /\ pc' = "Fitting" /\ holdout_number' = holdout_number
    \/ /\ pc = "Fitting" /\ pc' = "Scoring" /\ holdout_number' = holdout_number
    \/ /\ pc = "Scoring" /\ pc' = "Recorded" /\ holdout_number' = holdout_number
    \/ /\ pc = "Recorded" /\ pc' = "Splitting"
       /\ holdout_number' = holdout_number + 1 /\ holdout_number' < number_of_holdouts
    \/ /\ pc = "Recorded" /\ pc' = "Complete"
       /\ holdout_number = number_of_holdouts - 1 /\ holdout_number' = holdout_number
    \/ /\ pc \in {"Splitting", "Fitting", "Scoring"} /\ pc' = "Failed"
       /\ holdout_number' = holdout_number

\* C18: a run starts Initialized and goes Splitting, Fitting, Scoring,
\* Recorded once for each holdout index 0, 1, ... in turn; it becomes
\* Complete right after the Recorded stage of holdout number_of_holdouts - 1,
\* and a run of at least one holdout in which nothing fails does become
\* Complete.
C18_RunStages ==
    /\ pc = "Initialized"
    /\ [][RunTransition]_vars
    /\ (number_of_holdouts >= 1 => <>(pc \in {"Complete", "Failed"}))

\* C18 witness: an edge-label run of MaxHoldouts holdouts is Complete, its
\* last holdout being number_of_holdouts - 1.
C18_Witness ==
    /\ task = "edge"
    /\ pc = "Complete"
    /\ number_of_holdouts = MaxHoldouts
    /\ holdout_number = MaxHoldouts - 1
    /\ failure = "none"

\* C19: every holdout is fitted on an unfitted model: when a holdout is
\* split and when its fit starts, neither flag of the model is set, whatever
\* the holdouts before it set; while the holdout is scored and recorded the
\* flags of a node-label model are those its own fit derived from the graph;
\* and a completed run leaves no fitted state behind.
C19_FreshModel ==
    /\ pc \in {"Initialized", "Splitting", "Fitting", "Complete"} =>
          /\ is_binary_prediction_task = None
          /\ is_multilabel_prediction_task = None
    /\ pc \in {"Scoring", "Recorded"} /\ task = "node" =>
          /\ is_binary_prediction_task = {graph.node_types_number = 2}
          /\ is_multilabel_prediction_task = {graph.multilabel}

\* C19 witness: the fit of the second holdout of a node-label run is about
\* to start, the first holdout having been fitted, scored and recorded.
C19_Witness ==
    /\ task = "node"
    /\ pc = "Fitting"
    /\ holdout_number = 1
    /\ Len(performance) = 2
    /\ is_binary_prediction_task = None

\* C25: in every record of an edge-label run, the labels that reach the
\* scorers are as many as the predictions, one for each edge of the graph
\* evaluated in that record's mode.
C25_EdgeLabelsOfEvaluatedGraph ==
    task = "edge" =>
        \A p \in 1..Len(performance) :
            /\ performance[p].predictions_length = Cardinality(EvaluatedGraph(p))
            /\ performance[p].labels_length = Cardinality(EvaluatedGraph(p))
            /\ performance[p].labels_length = performance[p].predictions_length

(***************************************************************************)
(* Properties of the DAGResnik similarity methods (checked under           *)
(* SpecResnik).                                                            *)
(***************************************************************************)
\* C12: every similarity method of DAGResnik whose scores from the engine
\* contain NaN raises an error and returns no row, the single-pair method
\* get_similarity_from_node_id included.
C12_NaNRaises ==
    HasNaN(resnik_call.predictions) =>
        /\ resnik_call.out.raised = "ValueError"
        /\ resnik_call.out.rows = << >>

(***************************************************************************)
(* Properties of the caller's graph (checked under SpecFrame).             *)
(***************************************************************************)
\* C20: no call of split_graph_following_evaluation_schema or of _evaluate,
\* in either task, changes the graph it is given: after any sequence of such
\* calls the caller's graph is what it was.
C20_GraphUnchanged == [][graph' = graph]_vars

\* C20 witness: the splitter and _evaluate (with each encoding of the
\* labels) have been called on a node-label graph that has labels.
C20_Witness ==
    /\ task = "node"
    /\ graph.examples > 0
    /\ "get_node_label_kfold" \in graph_calls
    /\ {"get_known_node_types_number", "get_one_hot_encoded_node_types",
        "get_boolean_node_type_ids", "get_single_label_node_type_ids"} \subseteq graph_calls

(***************************************************************************)
(* Properties of Node2VecSequence (checked under SpecNode2Vec).            *)
(***************************************************************************)
\* C21: every call of Node2VecSequence.__getitem__ on a sequence built with
\* a length, a batch size and a window size raises NotImplementedError and
\* returns no batch.
C21_GetItemNotImplemented ==
    n2v_call.called =>
        /\ n2v_call.out.raised = "NotImplementedError"
        /\ n2v_call.out.returned = << >>

(***************************************************************************)
(* Properties of the PyKeen embedders (checked under SpecPyKeen).          *)
(***************************************************************************)
\* The training loop class a training_loop argument selects: the class a
\* supported name stands for, or the class given.
SelectedTrainingLoop(requested) ==
    IF requested.kind = "str"
    THEN IF requested.value = StrSLCWA THEN "SLCWATrainingLoop" ELSE "LCWATrainingLoop"
    ELSE requested.value

\* C22: the training loop a PyKeen embedder was built with, by either
\* supported name or by a TrainingLoop subclass, is the one kept by the
\* embedder and the one _fit_transform trains the model with.
C22_TrainingLoopUsed ==
    pykeen.built /\ pykeen.self.raised = "none" =>
        /\ pykeen.self.training_loop = {SelectedTrainingLoop(pykeen.requested)}
        /\ \A i \in 1..Len(pykeen.trained) :
              pykeen.trained[i].training_loop = SelectedTrainingLoop(pykeen.requested)

(***************************************************************************)
(* Properties of graph_to_sparse_tensor (checked under SpecSparse).        *)
(***************************************************************************)
\* the graph, or the request, graph_to_sparse_tensor refuses
Refused(g, use_weights) ==
    \/ use_weights /\ ~g.has_edge_weights
    \/ g.has_singleton_nodes
    \/ g.is_multigraph

\* C23: a call of graph_to_sparse_tensor that asks for weights the graph
\* does not have, or whose graph has singleton nodes or is a multigraph,
\* raises ValueError without having called any engine method that reads the
\* edges and without a tensor; every other call returns a tensor.
C23_SparseTensorChecks ==
    sparse_call.called =>
        IF Refused(sparse_call.graph, sparse_call.use_weights)
        THEN /\ sparse_call.out.raised = "ValueError"
             /\ sparse_call.out.tensor = << >>
             /\ \A i \in 1..Len(sparse_call.out.calls) : sparse_call.out.calls[i] \notin EdgeDataMethods
        ELSE /\ sparse_call.out.raised = "none"
             /\ Len(sparse_call.out.tensor) = 1

\* C23 witness: a weighted multigraph without singleton nodes was refused
\* although its weights were asked for and present.
C23_Witness ==
    /\ sparse_call.called
    /\ sparse_call.use_weights /\ sparse_call.graph.has_edge_weights
    /\ ~sparse_call.graph.has_singleton_nodes
    /\ sparse_call.graph.is_multigraph
    /\ sparse_call.out.raised = "ValueError"

(***************************************************************************)
(* Properties of HOPEEnsmallen (checked under SpecHOPE).                   *)
(***************************************************************************)
\* the ten metric names of the documentation of HOPEEnsmallen
TenMetrics ==
    {"Jaccard", "Neighbours Intersection size", "Ancestors Jaccard", "Ancestors size",
     "Adamic-Adar", "Adjacency", "Laplacian", "Left Normalized Laplacian",
     "Right Normalized Laplacian", "Symmetric Normalized Laplacian"}

\* C24: a construction of HOPEEnsmallen succeeds exactly when the metric is
\* one of the ten available metrics and a root node name is given exactly
\* when the metric is 'Ancestors Jaccard' or 'Ancestors size'; any other
\* construction raises ValueError and has set no field of the instance.
C24_HOPEConstructor ==
    hope.built =>
        IF /\ hope.metric \in TenMetrics
           /\ (hope.root_node_name # None) <=> (hope.metric \in {"Ancestors Jaccard", "Ancestors size"})
        THEN /\ hope.out.raised = "none"
             /\ hope.out.fields = {<<"_metric", {hope.metric}>>, <<"_root_node_name", hope.root_node_name>>}
        ELSE /\ hope.out.raised = "ValueError"
             /\ hope.out.fields = {}

\* C24 witness: a construction with an available metric that is not based on
\* ancestors, and a root node name, was refused.
C24_Witness ==
    /\ hope.built
    /\ hope.metric = "Adjacency"
    /\ hope.root_node_name = {"root"}
    /\ hope.out.raised = "ValueError"

(***************************************************************************)
(* Properties of GloVe.fit (checked under SpecGloVe).                      *)
(***************************************************************************)
\* the positions of the on_epoch_end callbacks among the callbacks made
EpochEnds == {i \in 1..Len(glove.events) : glove.events[i].callback = "on_epoch_end"}

\* the callbacks made so far are in the order of the training loop
CallbacksInOrder ==
    /\ \A i \in EpochEnds :
          \* the epochs end in order, once each
          /\ glove.events[i].epoch = Cardinality({j \in EpochEnds : j < i})
          \* with the loss of an optimization step
          /\ \E j \in 1..Len(glove.events) :
                /\ glove.events[j].callback = "on_batch_end"
                /\ glove.events[j].loss = glove.events[i].loss
          \* after the batches of the epoch
          /\ \A j \in 1..Len(glove.events) :
                glove.events[j].callback = "on_batch_end" /\ glove.events[j].epoch = glove.events[i].epoch
                    => j < i
    /\ glove.pc = "done" => Cardinality(EpochEnds) = glove.epochs

\* C28: fit, called with at least one co-occurrence and one epoch, with
\* fewer co-occurrences than batch_size too, never raises, ends, and has
\* then called on_epoch_end once per epoch, in epoch order, each time after
\* the on_batch_end calls of that epoch and with the loss of an
\* optimization step.
C28_GloVeFitCompletes ==
    /\ [](glove.raised = "none" /\ CallbacksInOrder)
    /\ <>(glove.pc = "done")

(***************************************************************************)
(* C29: within one training run of a LinkPredictionSequence, two batches   *)
(* requested for different (epoch, idx) pairs are never requested from the *)
(* graph with the same seed: a later epoch does not replay the batches of  *)
(* an earlier one.                                                         *)
(***************************************************************************)
C29_DistinctSeeds ==
    \A r1 \in lps.requests : \A r2 \in lps.requests :
        (r1.epoch # r2.epoch \/ r1.idx # r2.idx) => r1.seed # r2.seed

(***************************************************************************)
(* C30: WalkletsEnsmallen round-trips its embedding size: for every        *)
(* embedding_size and window_size >= 1 given to the constructor,           *)
(* parameters() reports the embedding_size that was passed in.             *)
(***************************************************************************)
C30_EmbeddingSizeRoundTrip ==
    walklets.pc = "parameters" => walklets.parameters.embedding_size = walklets.embedding_size

====
